---- MODULE Spec2Model ----
(***************************************************************************)
(* Model of start.py, the PaperMC server supervisor: startup scan of the   *)
(* install directory, the update step (registry lookup, download, removal  *)
(* of the old jar, adoption of the new build), the child spawn and the     *)
(* operator prompt.                                                        *)
(*                                                                         *)
(* A file name is a sequence of tokens: the literal prefix, then one       *)
(* token per character of the variable part, then the literal extension.   *)
(* A path is a record [loc, name]; loc "top" is SERVER_JAR_LOCATION and    *)
(* "sub" a subdirectory below it (os.walk descends into it).               *)
(* The directory maps each existing path to the number of chunks its file  *)
(* holds; a jar is complete when it holds NumChunks chunks.                *)
(***************************************************************************)
EXTENDS Integers, Sequences, FiniteSets, TLC

\* ---- bounds of the model ----
MaxBuild == 2
NumChunks == 2
MaxInitFiles == 1
MaxCycles == 2
MaxRuns == 2
MaxPrompts == 1
MaxLineLen == 2

\* ---- program constants ----
None == -2
RESTART_PROMPT_TIMEOUT == 10
Prefix == "papermc-server_"
Ext == ".jar"
SERVER_JAR_LOCATION == "top"
DigitChars == <<"0", "1", "2", "3", "4", "5", "6", "7", "8", "9">>
Whitespace == {" ", "\n"}
NoPath == [loc |-> "none", name |-> <<>>]

IsDigit(c) == \E i \in 1..10 : DigitChars[i] = c
DigitValue(c) == (CHOOSE i \in 1..10 : DigitChars[i] = c) - 1

\* str(n) for a non-negative n, as a sequence of digit characters
RECURSIVE StrNat(_)
StrNat(n) == IF n < 10 THEN <<DigitChars[n + 1]>>
             ELSE StrNat(n \div 10) \o <<DigitChars[(n % 10) + 1]>>

\* str(build) as the f-string formats it (a minus sign for negatives)
Str(n) == IF n < 0 THEN <<"-">> \o StrNat(0 - n) ELSE StrNat(n)

\* int(s) for a sequence of digit characters
RECURSIVE IntOf(_)
IntOf(s) == IF Len(s) = 0 THEN 0
            ELSE 10 * IntOf(SubSeq(s, 1, Len(s) - 1)) + DigitValue(s[Len(s)])

jar_name(build) == <<Prefix>> \o Str(build) \o <<Ext>>

jar_path(jar) == [loc |-> SERVER_JAR_LOCATION, name |-> jar]

\* ^papermc-server_\d+\.jar$
PAPER_SERVER_REGEX_match(file) ==
    /\ Len(file) >= 3
    /\ file[1] = Prefix
    /\ file[Len(file)] = Ext
    /\ \A i \in 2..(Len(file) - 1) : IsDigit(file[i])

\* \d+ searched in the name: the first maximal run of digits
build_from_jar_name(file) ==
    LET idx == {i \in 1..Len(file) : IsDigit(file[i])}
    IN IF idx = {} THEN -1
       ELSE LET first == CHOOSE i \in idx : \A j \in idx : i <= j
                last == CHOOSE j \in idx :
                           /\ \A k \in first..j : k \in idx
                           /\ (j + 1) \notin idx
            IN IntOf(SubSeq(file, first, last))

\* every file below the install directory that matches the naming pattern
MatchingFiles(d) == {p \in DOMAIN d : PAPER_SERVER_REGEX_match(p.name)}

\* the files os.walk can deliver first: the matches of the top directory,
\* in any enumeration order, and those of the subdirectory when it has none
FirstMatches(d) ==
    LET top == {p \in DOMAIN d : p.loc = SERVER_JAR_LOCATION /\ PAPER_SERVER_REGEX_match(p.name)}
        sub == {p \in DOMAIN d : p.loc # SERVER_JAR_LOCATION /\ PAPER_SERVER_REGEX_match(p.name)}
    IN IF top # {} THEN top ELSE sub

\* the builds find_current_build can return
find_current_build(d) ==
    IF FirstMatches(d) = {} THEN {-1}
    ELSE {build_from_jar_name(p.name) : p \in FirstMatches(d)}

\* CURRENT_BUILD >= latest_build
IsUpToDate_Strict(current, latest) == current > latest
IsUpToDate_Equal(current, latest) == current = latest
IsUpToDate(current, latest) == current >= latest

\* response.raise_for_status(): TRUE when it raises
raise_for_status_Never(status) == FALSE
raise_for_status(status) == status # "ok"

\* the for loop over iter_content ends when every chunk was written
DownloadDone_Early(written) == written >= 1
DownloadDone(written) == written = NumChunks

Put(d, p, v) == [q \in (DOMAIN d) \cup {p} |-> IF q = p THEN v ELSE d[q]]
Remove(d, p) == [q \in (DOMAIN d) \ {p} |-> d[q]]

\* ---- operator input ----
InputChars == {"r", "R", "s", "S", "x", " "}
RECURSIVE SeqsUpTo(_, _)
SeqsUpTo(S, n) == IF n = 0 THEN {<<>>}
                  ELSE LET shorter == SeqsUpTo(S, n - 1)
                       IN shorter \cup {Append(s, c) : s \in shorter, c \in S}
\* what readline returns: a typed line with its newline, or "" at end of input
Lines == {s \o <<"\n">> : s \in SeqsUpTo(InputChars, MaxLineLen)} \cup {<<>>}
NoInput == <<"timeout">>

RECURSIVE lstrip(_)
lstrip(s) == IF Len(s) > 0 /\ s[1] \in Whitespace THEN lstrip(Tail(s)) ELSE s
RECURSIVE rstrip(_)
rstrip(s) == IF Len(s) > 0 /\ s[Len(s)] \in Whitespace
             THEN rstrip(SubSeq(s, 1, Len(s) - 1)) ELSE s
strip(s) == rstrip(lstrip(s))
LowerChar(c) == IF c = "R" THEN "r" ELSE IF c = "S" THEN "s" ELSE c
lower_Identity(s) == s
lower(s) == [i \in 1..Len(s) |-> LowerChar(s[i])]
\* sys.stdin.readline().strip().lower()
user_response(input) == lower(strip(input))

VARIABLES CURRENT_BUILD, CURRENT_JAR_PATH, pc, latest_build, dir,
          registryLatest, downloadStatus, run, cycle, fetches, envFail,
          snapBuild, snapPath, snapDir, prevLatest, prevClean, spawnPath,
          cannotStart, scanned, scannedPartial, line, prompts, exitCode,
          outcome, upToDate, waited, spent, scanCount

vars == <<CURRENT_BUILD, CURRENT_JAR_PATH, pc, latest_build, dir,
          registryLatest, downloadStatus, run, cycle, fetches, envFail,
          snapBuild, snapPath, snapDir, prevLatest, prevClean, spawnPath,
          cannotStart, scanned, scannedPartial, line, prompts, exitCode,
          outcome, upToDate, waited, spent, scanCount>>

memVars == <<CURRENT_BUILD, CURRENT_JAR_PATH>>
cycleVars == <<fetches, envFail, snapBuild, snapPath, snapDir, upToDate>>
prevVars == <<prevLatest, prevClean>>
scanVars == <<scanned, scannedPartial, scanCount>>
promptVars == <<line, prompts, waited, spent>>

\* ---- the install directory at the first start ----
InitNumbers == {Str(b) : b \in 1..MaxBuild} \cup {<<"0">> \o Str(1)}
InitFiles == {[loc |-> l, name |-> <<Prefix>> \o n \o <<Ext>>] :
                 l \in {SERVER_JAR_LOCATION, "sub"}, n \in InitNumbers}
InitDirs == {[p \in S |-> NumChunks] :
                 S \in {T \in SUBSET InitFiles : Cardinality(T) <= MaxInitFiles}}

\* module-level initialisation, lines 44-47
ModuleInit ==
    /\ CURRENT_BUILD = -1
    /\ CURRENT_JAR_PATH = NoPath
    /\ pc = "startup"
    /\ latest_build = None
    /\ downloadStatus = "none"
    /\ cycle = 1
    /\ fetches = 0
    /\ envFail = FALSE
    /\ snapBuild = -1
    /\ snapPath = NoPath
    /\ snapDir = <<>>
    /\ prevLatest = None
    /\ prevClean = FALSE
    /\ spawnPath = NoPath
    /\ cannotStart = FALSE
    /\ scanned = NoPath
    /\ scannedPartial = FALSE
    /\ scanCount = 0
    /\ line = NoInput
    /\ prompts = 0
    /\ waited = 0
    /\ spent = 0
    /\ exitCode = 0
    /\ outcome = "none"
    /\ upToDate = "undecided"

Init ==
    /\ ModuleInit
    /\ dir \in InitDirs
    /\ registryLatest = 1
    /\ run = 1

\* use_build, lines 58-64
use_build(build) ==
    /\ CURRENT_BUILD' = build
    /\ CURRENT_JAR_PATH' = jar_path(jar_name(build))

\* fill_in_current_server_info, lines 181-184: find_current_build never
\* returns None, so use_build is always called
fill_in_current_server_info ==
    /\ pc = "startup"
    /\ \E f \in (IF FirstMatches(dir) = {} THEN {NoPath} ELSE FirstMatches(dir)) :
          LET current_build == IF f = NoPath THEN -1 ELSE build_from_jar_name(f.name)
          IN /\ current_build \in find_current_build(dir)
             /\ IF current_build # None
                THEN use_build(current_build)
                ELSE UNCHANGED memVars
             /\ scanned' = f
             /\ scannedPartial' = (f # NoPath /\ dir[f] < NumChunks)
    /\ scanCount' = Cardinality(MatchingFiles(dir))
    /\ pc' = "update"
    /\ UNCHANGED <<latest_build, dir, registryLatest, downloadStatus, run, cycle,
                   cycleVars, prevVars, spawnPath, cannotStart, promptVars,
                   exitCode, outcome>>

\* the except clause of update_server, lines 125-127
UpdateFailed ==
    /\ outcome' = "failed"
    /\ pc' = "start"

\* update_server entry and download_latest_server_build up to the
\* comparison, lines 116-118 and 105-108
GetLatestBuild ==
    /\ pc = "update"
    /\ fetches' = 0
    /\ snapBuild' = CURRENT_BUILD
    /\ snapPath' = CURRENT_JAR_PATH
    /\ snapDir' = dir
    /\ downloadStatus' = "none"
    /\ cannotStart' = FALSE
    /\ spawnPath' = NoPath
    /\ line' = NoInput
    /\ prompts' = 0
    /\ waited' = 0
    /\ spent' = 0
    /\ exitCode' = 0
    /\ \/ /\ envFail' = TRUE
          /\ UpdateFailed
          /\ latest_build' = None
          /\ upToDate' = "undecided"
          /\ UNCHANGED registryLatest
       \/ \E latest \in registryLatest..MaxBuild :
             /\ envFail' = FALSE
             /\ registryLatest' = latest
             /\ latest_build' = latest
             /\ IF IsUpToDate(CURRENT_BUILD, latest)
                THEN /\ upToDate' = "yes"
                     /\ outcome' = "uptodate"
                     /\ pc' = "start"
                ELSE /\ upToDate' = "no"
                     /\ outcome' = "none"
                     /\ pc' = "download"
    /\ UNCHANGED <<memVars, dir, run, cycle, prevVars, scanVars>>

\* download_latest_jar, lines 86-93: name lookup, GET and status check
RequestDownload ==
    /\ pc = "download"
    /\ fetches' = fetches + 1
    /\ \/ /\ envFail' = TRUE
          /\ UpdateFailed
          /\ UNCHANGED downloadStatus
       \/ \E status \in {"ok", "error"} :
             /\ downloadStatus' = status
             /\ IF raise_for_status(status)
                THEN /\ envFail' = TRUE
                     /\ UpdateFailed
                ELSE /\ pc' = "open"
                     /\ UNCHANGED <<envFail, outcome>>
    /\ UNCHANGED <<memVars, latest_build, dir, registryLatest, run, cycle,
                   snapBuild, snapPath, snapDir, upToDate, prevVars, spawnPath,
                   cannotStart, scanVars, promptVars, exitCode>>

\* open(downloaded_jar_path, "wb"), lines 94-95: creates or truncates the
\* file at the final path
OpenJar ==
    /\ pc = "open"
    /\ LET downloaded_jar_path == jar_path(jar_name(latest_build))
       IN \/ /\ dir' = Put(dir, downloaded_jar_path, 0)
             /\ pc' = "write"
             /\ UNCHANGED <<envFail, outcome>>
          \/ /\ envFail' = TRUE
             /\ UpdateFailed
             /\ UNCHANGED dir
    /\ UNCHANGED <<memVars, latest_build, registryLatest, downloadStatus, run,
                   cycle, fetches, snapBuild, snapPath, snapDir, upToDate,
                   prevVars, spawnPath, cannotStart, scanVars, promptVars,
                   exitCode>>

\* one iteration of the chunk loop, lines 96-101
WriteChunk ==
    /\ pc = "write"
    /\ LET downloaded_jar_path == jar_path(jar_name(latest_build))
       IN \/ /\ dir' = Put(dir, downloaded_jar_path, dir[downloaded_jar_path] + 1)
             /\ pc' = IF DownloadDone(dir'[downloaded_jar_path]) THEN "commit" ELSE "write"
             /\ UNCHANGED <<envFail, outcome>>
          \/ /\ envFail' = TRUE
             /\ UpdateFailed
             /\ UNCHANGED dir
    /\ UNCHANGED <<memVars, latest_build, registryLatest, downloadStatus, run,
                   cycle, fetches, snapBuild, snapPath, snapDir, upToDate,
                   prevVars, spawnPath, cannotStart, scanVars, promptVars,
                   exitCode>>

\* update_server, lines 119-122, with use_build moved before the removal
InstallNewBuild_AdoptFirst ==
    /\ pc = "commit"
    /\ use_build(latest_build)
    /\ IF CURRENT_JAR_PATH \in DOMAIN dir
       THEN \/ /\ dir' = Remove(dir, CURRENT_JAR_PATH)
               /\ outcome' = "updated"
               /\ pc' = "start"
               /\ UNCHANGED envFail
            \/ /\ envFail' = TRUE
               /\ UpdateFailed
               /\ UNCHANGED dir
       ELSE /\ UpdateFailed
            /\ UNCHANGED <<dir, envFail>>
    /\ UNCHANGED <<latest_build, registryLatest, downloadStatus, run, cycle,
                   fetches, snapBuild, snapPath, snapDir, upToDate, prevVars,
                   spawnPath, cannotStart, scanVars, promptVars, exitCode>>

\* update_server, lines 119-122: os.remove(CURRENT_JAR_PATH), then use_build
InstallNewBuild ==
    /\ pc = "commit"
    /\ IF CURRENT_JAR_PATH \in DOMAIN dir
       THEN \/ /\ dir' = Remove(dir, CURRENT_JAR_PATH)
               /\ use_build(latest_build)
               /\ outcome' = "updated"
               /\ pc' = "start"
               /\ UNCHANGED envFail
            \/ /\ envFail' = TRUE
               /\ UpdateFailed
               /\ UNCHANGED <<dir, memVars>>
       ELSE /\ UpdateFailed
            /\ UNCHANGED <<dir, memVars, envFail>>
    /\ UNCHANGED <<latest_build, registryLatest, downloadStatus, run, cycle,
                   fetches, snapBuild, snapPath, snapDir, upToDate, prevVars,
                   spawnPath, cannotStart, scanVars, promptVars, exitCode>>

\* start_server, lines 152-163, up to the call of the child
start_server ==
    /\ pc = "start"
    /\ IF CURRENT_JAR_PATH = NoPath
       THEN /\ cannotStart' = TRUE
            /\ pc' = "prompt"
            /\ UNCHANGED spawnPath
       ELSE /\ spawnPath' = CURRENT_JAR_PATH
            /\ pc' = "running"
            /\ UNCHANGED cannotStart
    /\ UNCHANGED <<memVars, latest_build, dir, registryLatest, downloadStatus,
                   run, cycle, cycleVars, prevVars, scanVars, promptVars,
                   exitCode, outcome>>

ExitCodes == {0, 1}

\* subprocess.call returns with the child's exit code, which is dropped
ChildExit_AbortOnCrash ==
    /\ pc = "running"
    /\ \E code \in ExitCodes :
          /\ exitCode' = code
          /\ pc' = IF code = 0 THEN "prompt" ELSE "terminated"
    /\ UNCHANGED <<memVars, latest_build, dir, registryLatest, downloadStatus,
                   run, cycle, cycleVars, prevVars, spawnPath, cannotStart,
                   scanVars, promptVars, outcome>>

\* subprocess.call returns and a crashed child is started again at once
ChildExit_RespawnOnCrash ==
    /\ pc = "running"
    /\ \E code \in ExitCodes :
          /\ exitCode' = code
          /\ pc' = IF code = 0 THEN "prompt" ELSE "start"
    /\ UNCHANGED <<memVars, latest_build, dir, registryLatest, downloadStatus,
                   run, cycle, cycleVars, prevVars, spawnPath, cannotStart,
                   scanVars, promptVars, outcome>>

ChildExit ==
    /\ pc = "running"
    /\ \E code \in ExitCodes : exitCode' = code
    /\ pc' = "prompt"
    /\ UNCHANGED <<memVars, latest_build, dir, registryLatest, downloadStatus,
                   run, cycle, cycleVars, prevVars, spawnPath, cannotStart,
                   scanVars, promptVars, outcome>>

\* the loop of main continues with the next cycle, lines 193-194; the
\* cycles explored shrink by one with every new start of the script
NextCycle ==
    /\ cycle + (run - 1) < MaxCycles
    /\ cycle' = cycle + 1
    /\ prevLatest' = latest_build
    /\ prevClean' = ~envFail
    /\ pc' = "update"

\* the timeout handed to select.select, line 135; spent is the time the
\* earlier waits of this prompt took
SelectTimeout_Remaining(elapsed) == RESTART_PROMPT_TIMEOUT - elapsed
SelectTimeout(elapsed) == RESTART_PROMPT_TIMEOUT

\* one iteration of the loop of user_requests_stop, lines 133-149, and the
\* test of its result in main, lines 196-197; inputs is what the console
\* may deliver: a line typed `at` seconds after the prompt, or silence
PromptStep(inputs) ==
    /\ pc = "prompt"
    /\ \E in \in inputs :
          LET timeout == SelectTimeout(spent)
              stdin == IF in.text # NoInput /\ in.at < timeout THEN in.text ELSE NoInput
          IN /\ line' = stdin
             /\ IF stdin # NoInput
                THEN /\ waited' = in.at
                     /\ IF user_response(stdin) = <<"r">>
                        THEN /\ NextCycle
                             /\ UNCHANGED <<prompts, spent>>
                        ELSE IF user_response(stdin) = <<"s">>
                             THEN /\ pc' = "terminated"
                                  /\ UNCHANGED <<cycle, prevVars, prompts, spent>>
                             ELSE /\ prompts < MaxPrompts
                                  /\ prompts' = prompts + 1
                                  /\ spent' = spent + in.at
                                  /\ pc' = "prompt"
                                  /\ UNCHANGED <<cycle, prevVars>>
                ELSE /\ waited' = timeout
                     /\ NextCycle
                     /\ UNCHANGED <<prompts, spent>>
    /\ UNCHANGED <<memVars, latest_build, dir, registryLatest, downloadStatus,
                   run, cycleVars, spawnPath, cannotStart, scanVars, exitCode,
                   outcome>>

Silence == [text |-> NoInput, at |-> RESTART_PROMPT_TIMEOUT]
Typed(lines, times) == {[text |-> l, at |-> t] : l \in lines, t \in times}

\* the operator at the console: a restart line, a stop line, an invalid
\* line, the end of input, each at once, or silence until the timeout
ConsoleLines == {<<"r", "\n">>, <<"S", "\n">>, <<"x", "\n">>, <<>>}
user_requests_stop == PromptStep(Typed(ConsoleLines, {0}) \cup {Silence})

\* the module-level state of a process that is not running, lines 44-47
ProcessGone ==
    /\ CURRENT_BUILD' = -1
    /\ CURRENT_JAR_PATH' = NoPath
    /\ latest_build' = None
    /\ downloadStatus' = "none"
    /\ cycle' = 1
    /\ fetches' = 0
    /\ envFail' = FALSE
    /\ snapBuild' = -1
    /\ snapPath' = NoPath
    /\ snapDir' = <<>>
    /\ prevLatest' = None
    /\ prevClean' = FALSE
    /\ spawnPath' = NoPath
    /\ cannotStart' = FALSE
    /\ scanned' = NoPath
    /\ scannedPartial' = FALSE
    /\ scanCount' = 0
    /\ line' = NoInput
    /\ prompts' = 0
    /\ waited' = 0
    /\ spent' = 0
    /\ exitCode' = 0
    /\ outcome' = "none"
    /\ upToDate' = "undecided"

\* the supervisor process is killed from outside: its memory is lost, the
\* directory stays as it is
Kill ==
    /\ pc \notin {"terminated", "killed"}
    /\ pc' = "killed"
    /\ ProcessGone
    /\ UNCHANGED <<dir, registryLatest, run>>

\* the script is started again, lines 200-201: module state is initialised
\* afresh
StartAgain ==
    /\ pc \in {"terminated", "killed"}
    /\ run < MaxRuns
    /\ run' = run + 1
    /\ pc' = "startup"
    /\ ProcessGone
    /\ UNCHANGED <<dir, registryLatest>>

Next ==
    \/ fill_in_current_server_info
    \/ GetLatestBuild
    \/ RequestDownload
    \/ OpenJar
    \/ WriteChunk
    \/ InstallNewBuild
    \/ start_server
    \/ ChildExit
    \/ user_requests_stop
    \/ Kill
    \/ StartAgain

Spec == Init /\ [][Next]_vars

\* ---- the operator prompt on every line up to MaxLineLen characters ----
\* the supervisor at the prompt of its first cycle: the jar of build b was
\* found at startup, the registry reported b, the child ran and exited
PromptInit ==
    \E b \in 1..MaxBuild, code \in ExitCodes :
       LET path == jar_path(jar_name(b))
       IN /\ CURRENT_BUILD = b
          /\ CURRENT_JAR_PATH = path
          /\ pc = "prompt"
          /\ latest_build = b
          /\ dir = [p \in {path} |-> NumChunks]
          /\ registryLatest = b
          /\ downloadStatus = "none"
          /\ run = 1
          /\ cycle = 1
          /\ fetches = 0
          /\ envFail = FALSE
          /\ snapBuild = b
          /\ snapPath = path
          /\ snapDir = [p \in {path} |-> NumChunks]
          /\ prevLatest = None
          /\ prevClean = FALSE
          /\ spawnPath = path
          /\ cannotStart = FALSE
          /\ scanned = path
          /\ scannedPartial = FALSE
          /\ scanCount = 1
          /\ line = NoInput
          /\ prompts = 0
          /\ waited = 0
          /\ spent = 0
          /\ exitCode = code
          /\ outcome = "uptodate"
          /\ upToDate = "yes"

\* every line, typed at once or just before the timeout, or silence
ArrivalTimes == {0, RESTART_PROMPT_TIMEOUT - 1}
ReadAnyLine == PromptStep(Typed(Lines, ArrivalTimes) \cup {Silence})

PromptSpec == PromptInit /\ [][ReadAnyLine]_vars

\* the states PromptSpec starts from are states of Spec
AtFirstPrompt ==
    /\ pc = "prompt" /\ cycle = 1 /\ run = 1 /\ prompts = 0 /\ line = NoInput
    /\ outcome = "uptodate" /\ CURRENT_BUILD = latest_build
    /\ dir = [p \in {CURRENT_JAR_PATH} |-> NumChunks]
    /\ snapDir = dir /\ scanned = CURRENT_JAR_PATH /\ spawnPath = CURRENT_JAR_PATH
NeverAtFirstPrompt == ~AtFirstPrompt

\* ---- vocabulary of the properties ----
UpdatePcs == {"update", "download", "open", "write", "commit"}
Target == jar_path(jar_name(latest_build))
Exists(p) == p \in DOMAIN dir
Complete(p) == Exists(p) /\ dir[p] = NumChunks
Restarted == pc' = "update" /\ cycle' = cycle + 1
\* a line whose only non-blank character is c
OnlyChar(l, cs) == \E i \in 1..Len(l) :
                      /\ l[i] \in cs
                      /\ \A j \in 1..Len(l) : j # i => l[j] \in Whitespace

\* C1: with no artifact at startup and a registry answering without any
\* failure, the first cycle downloads once, installs the latest build at its
\* install path and spawns the child with that path.
C1_FirstCycleInstallsAndLaunches ==
    (pc = "running" /\ cycle = 1 /\ scanned = NoPath /\ ~envFail /\ latest_build # None)
        => /\ fetches = 1
           /\ Complete(Target)
           /\ spawnPath = Target

\* C2: spawn is never called with a path at which no file exists, and when
\* the startup scan found nothing and the update installed nothing the
\* supervisor prints "Cannot start server." instead of spawning.
C2_NoSpawnWithoutFile ==
    /\ pc = "running" => Exists(spawnPath)
    /\ (pc \in {"running", "prompt"} /\ scanned = NoPath /\ CURRENT_BUILD = -1)
          => (cannotStart /\ pc = "prompt")

\* C3: a failure in any step of the update is caught: the step leads to the
\* start-server step of the same cycle and leaves the recorded build and the
\* launch path as they were when the update began.
C3_UpdateFailureContained ==
    [][(pc \in UpdatePcs /\ outcome' = "failed")
          => /\ pc' = "start"
             /\ cycle' = cycle
             /\ CURRENT_BUILD' = snapBuild'
             /\ CURRENT_JAR_PATH' = snapPath']_vars

C3_Witness ==
    /\ pc = "running"
    /\ outcome = "failed"
    /\ envFail
    /\ fetches = 1
    /\ dir # snapDir
    /\ CURRENT_BUILD = snapBuild

\* C4 as stated: the update step decides "up to date" exactly when the
\* recorded build equals the latest build, and never when nothing is
\* installed.
C4_UpToDateIffEqual ==
    upToDate # "undecided"
        => /\ (upToDate = "yes") <=> (snapBuild = latest_build)
           /\ snapBuild = -1 => upToDate = "no"

\* C4 amended: the update step decides "up to date" (and downloads nothing)
\* exactly when the recorded build is at least the latest build; with no
\* recorded build (-1) it always attempts a download.
C4_UpToDateIffNotOlder ==
    upToDate # "undecided"
        => /\ (upToDate = "yes") <=> (snapBuild >= latest_build)
           /\ snapBuild = -1 => upToDate = "no"
           /\ upToDate = "yes" => fetches = 0
           /\ (upToDate = "no" /\ pc # "download") => fetches = 1

C4_Witness ==
    /\ upToDate = "yes"
    /\ snapBuild > latest_build
    /\ pc = "running"

\* C5: when the update step ran in the previous cycle and runs again with
\* the same latest build, no failure injected in either, the second run
\* downloads nothing and leaves the directory and the recorded state alone.
C5_SecondUpdateIsNoOp ==
    (pc = "start" /\ cycle >= 2 /\ prevClean /\ ~envFail /\ prevLatest = latest_build)
        => /\ fetches = 0
           /\ dir = snapDir
           /\ CURRENT_BUILD = snapBuild
           /\ CURRENT_JAR_PATH = snapPath

\* C6: the startup scan never reports a half-written file as the current
\* artifact.
C6_ScanNeverReportsPartial ==
    ~scannedPartial

\* C7: the child is never spawned on a partially written jar, and after an
\* update that adopted a new build the spawned path is an existing, fully
\* written file.
C7_SpawnPathComplete ==
    pc = "running"
        => /\ Exists(spawnPath) => Complete(spawnPath)
           /\ outcome = "updated" => Complete(spawnPath)

C9_OnlyStopTerminates ==
    [][(pc' = "terminated" /\ pc # "terminated")
          => /\ pc = "prompt"
             /\ line' # NoInput
             /\ OnlyChar(line', {"s", "S"})]_vars

C9_Witness ==
    /\ pc = "terminated"
    /\ outcome = "failed"
    /\ exitCode = 1
    /\ cycle = MaxCycles

\* C10 as stated: the lines "r" and "R" restart, "s" and "S" stop, a timeout
\* restarts, and every other input repeats the prompt.
C10_ExactLinesDecide ==
    [][(pc = "prompt" /\ pc' # "killed")
          => LET typed == IF line' # NoInput /\ Len(line') > 0
                          THEN SubSeq(line', 1, Len(line') - 1) ELSE line'
             IN /\ typed \in {<<"r">>, <<"R">>} => Restarted
                /\ typed \in {<<"s">>, <<"S">>} => pc' = "terminated"
                /\ line' = NoInput => Restarted
                /\ typed \notin {<<"r">>, <<"R">>, <<"s">>, <<"S">>, NoInput}
                      => (pc' = "prompt" /\ prompts' = prompts + 1)]_vars

\* C10 amended: a line whose content, blanks around it ignored, is "r" or
\* "R" restarts; one whose content is "s" or "S" stops; a timeout restarts;
\* every other line, the empty one included, repeats the prompt.
C10_StrippedLinesDecide ==
    [][(pc = "prompt" /\ pc' # "killed")
          => /\ (line' # NoInput /\ OnlyChar(line', {"r", "R"})) => Restarted
             /\ (line' # NoInput /\ OnlyChar(line', {"s", "S"})) => pc' = "terminated"
             /\ line' = NoInput => Restarted
             /\ (line' # NoInput /\ ~OnlyChar(line', {"r", "R", "s", "S"}))
                   => (pc' = "prompt" /\ prompts' = prompts + 1)]_vars

C10_Witness ==
    /\ pc = "update"
    /\ cycle = 2
    /\ line = <<" ", "R", "\n">>

\* C11: after the child exits, with any exit code, the next step is the
\* operator prompt; a restart decision (a restart line or the timeout)
\* starts a new cycle at the update step; the start-server step is entered
\* only from the update step and spawns the child; so a spawn after the
\* first is preceded by a restart decision and an update step.
C11_PromptThenUpdateThenSpawn ==
    [][(pc' # "killed" /\ pc' # pc)
          => /\ pc = "running" => pc' = "prompt"
             /\ (pc = "prompt" /\ (line' = NoInput \/ OnlyChar(line', {"r", "R"})))
                   => Restarted
             /\ pc' = "update"
                   => \/ pc = "startup"
                      \/ /\ pc = "prompt"
                         /\ line' = NoInput \/ OnlyChar(line', {"r", "R"})
             /\ pc' = "start" => (pc \in UpdatePcs /\ outcome' # "none")
             /\ pc = "start" => (pc' = "running" /\ spawnPath' = CURRENT_JAR_PATH)
             /\ pc' = "running" => pc = "start"]_vars

C11_Witness ==
    /\ pc = "running"
    /\ cycle = 2
    /\ prevLatest # None
    /\ outcome = "uptodate"

\* C12: when the jar of build B is the one artifact in the directory at the
\* start of the update step and the registry reports B, without any failure,
\* the update step downloads nothing, leaves the directory as it was, and
\* the child is spawned with the path of that jar.
C12_UpToDateTouchesNothing ==
    (/\ pc = "running"
     /\ ~envFail
     /\ latest_build # None
     /\ DOMAIN snapDir = {Target}
     /\ snapDir[Target] = NumChunks)
        => /\ fetches = 0
           /\ dir = snapDir
           /\ spawnPath = Target

\* C13: every wait at the prompt is granted the full timeout, however many
\* invalid lines came before: the prompt is left by the timeout only after a
\* wait of RESTART_PROMPT_TIMEOUT seconds without input, a line typed before
\* that is read, and the prompt is left only by a valid line or that timeout.
C13_EveryWaitIsFull ==
    [][(pc = "prompt" /\ pc' # "killed")
          => /\ line' = NoInput => (waited' = RESTART_PROMPT_TIMEOUT /\ Restarted)
             /\ line' # NoInput => waited' < RESTART_PROMPT_TIMEOUT
             /\ pc' # "prompt"
                   => \/ line' = NoInput /\ waited' = RESTART_PROMPT_TIMEOUT
                      \/ line' # NoInput /\ OnlyChar(line', {"r", "R", "s", "S"})
             /\ (pc' = "prompt" /\ line' # NoInput)
                   => (prompts' = prompts + 1 /\ spent' = spent + waited')]_vars

C13_Witness ==
    /\ pc = "update"
    /\ line = NoInput
    /\ prompts = 1
    /\ spent = RESTART_PROMPT_TIMEOUT - 1
    /\ waited = RESTART_PROMPT_TIMEOUT

\* C14: when at most one matching file existed at startup, at most one
\* matching file exists whenever the child is spawned.
C14_OneArtifactAtSpawn ==
    (pc = "running" /\ scanCount <= 1)
        => Cardinality(MatchingFiles(dir)) <= 1

\* C15: once startup is done the launch path is the install path of the
\* recorded build, and the recorded build changes only in the step that
\* completes an update, to the build the registry reported, which is greater
\* than the one recorded before.
C15_PathFollowsBuildAndBuildGrows ==
    [][/\ pc' \notin {"startup", "killed"}
          => CURRENT_JAR_PATH' = jar_path(jar_name(CURRENT_BUILD'))
       /\ (pc # "startup" /\ pc' \notin {"startup", "killed"}
             /\ (CURRENT_BUILD' # CURRENT_BUILD \/ CURRENT_JAR_PATH' # CURRENT_JAR_PATH))
          => /\ pc = "commit"
             /\ outcome' = "updated"
             /\ CURRENT_BUILD' = latest_build
             /\ latest_build = registryLatest
             /\ CURRENT_BUILD' > CURRENT_BUILD]_vars

C15_Witness ==
    /\ pc = "running"
    /\ outcome = "updated"
    /\ snapBuild >= 1
    /\ CURRENT_BUILD = latest_build
    /\ CURRENT_BUILD > snapBuild
    /\ spawnPath = jar_path(jar_name(CURRENT_BUILD))

\* C16: the launch path computed from the build the startup scan reported
\* is the path of the file the scan found, and the first spawn after an
\* up-to-date check launches that file.
C16_LaunchPathIsFoundFile ==
    /\ (pc = "update" /\ cycle = 1 /\ scanned # NoPath)
          => (CURRENT_JAR_PATH = scanned /\ Exists(CURRENT_JAR_PATH))
    /\ (pc = "running" /\ cycle = 1 /\ scanned # NoPath /\ upToDate = "yes")
          => (spawnPath = scanned /\ Exists(spawnPath))

TypeOK ==
    /\ CURRENT_BUILD \in -1..MaxBuild
    /\ pc \in {"startup", "update", "download", "open", "write", "commit",
               "start", "running", "prompt", "terminated", "killed"}
    /\ \A p \in DOMAIN dir : dir[p] \in 0..NumChunks
====
